---------------------------- MODULE Spec2Model ----------------------------
(***************************************************************************)
(* A model of resyncinator.py: the PCM offset transform (apply_offset),    *)
(* the asset discovery filter (gather_vgs_files), the per-asset            *)
(* convert/offset/convert/replace loop (process_vgs_files), the archive    *)
(* unit handler (extract_ark, repack_ark), the disc image ingest           *)
(* (extract_any_isos) and the orchestration in main.                       *)
(*                                                                         *)
(* External programs (arkhelper, RockAudio, 7z) are the environment: each  *)
(* call either returns zero or returns non-zero (subprocess.run with       *)
(* check=True then raises CalledProcessError), or raises FileNotFoundError *)
(* when the binary is absent.                                              *)
(***************************************************************************)
EXTENDS Integers, Sequences, FiniteSets, TLC

(***************************************************************************)
(* Bounds of the model.                                                    *)
(***************************************************************************)
MaxUnits  == 2   \* archive units (MAIN.HDR + MAIN*.ARK) that can appear
MaxAssets == 2   \* eligible .vgs files packed in the first archive unit
MaxIsos   == 2   \* disc images lying in the main folder
MaxFaults == 2   \* non-zero exits / failed removals the environment produces
MaxFrames == 3   \* frames of the short PCM inputs of the transform

NoFile == [absent |-> TRUE]

(***************************************************************************)
(* Characters and path segments.  A segment or a stem is a sequence of     *)
(* one-character strings, so that str.lower() and the regular expression   *)
(* of gather_vgs_files are computed character by character.                *)
(***************************************************************************)
UpperChars == <<"A","B","C","D","E","F","G","H","I","J","K","L","M",
                "N","O","P","Q","R","S","T","U","V","W","X","Y","Z">>
LowerChars == <<"a","b","c","d","e","f","g","h","i","j","k","l","m",
                "n","o","p","q","r","s","t","u","v","w","x","y","z">>
Digits == {"0","1","2","3","4","5","6","7","8","9"}

\* str.lower() on one character
LowerChar(c) ==
    IF \E i \in 1..Len(UpperChars) : UpperChars[i] = c
    THEN LowerChars[CHOOSE i \in 1..Len(UpperChars) : UpperChars[i] = c]
    ELSE c

\* str.lower() on a string
Lower(s) == [i \in 1..Len(s) |-> LowerChar(s[i])]

\* re.search(r'_p\d{2}$', stem_lower)
MatchesPractice(stem_lower) ==
    LET n == Len(stem_lower) IN
    /\ n >= 4
    /\ stem_lower[n-3] = "_"
    /\ stem_lower[n-2] = "p"
    /\ stem_lower[n-1] \in Digits
    /\ stem_lower[n] \in Digits

seg_songs    == <<"s","o","n","g","s">>
seg_tutorial == <<"t","u","t","o","r","i","a","l">>
seg_sfx      == <<"s","f","x">>
seg_temp_out == <<"t","e","m","p","_","o","u","t">>
seg_main     == <<"m","a","i","n">>
suffix_temp  == <<"_","t","e","m","p">>

\* The filter of gather_vgs_files on one path: parts are the directory
\* segments of vgs_path.parts (the file name segment ends in ".vgs" and so
\* equals none of the three words), stem is vgs_path.stem.
Eligible(parts, stem) ==
    LET parts_lower == {Lower(parts[i]) : i \in 1..Len(parts)}
        stem_lower  == Lower(stem)
    IN  /\ ~(seg_tutorial \in parts_lower \/ seg_sfx \in parts_lower)
        /\ seg_songs \in parts_lower
        /\ ~MatchesPractice(stem_lower)

(***************************************************************************)
(* PCM containers as the wave module sees them.                            *)
(***************************************************************************)
FrameSize(w) == w.channels * w.sampwidth

\* Wave_read.getnframes(): the data chunk's size over the frame size
getnframes(w) == Len(w.data) \div FrameSize(w)

\* readframes without the setpos before it: n frames from the start
readframes_without_setpos(w, pos, n) ==
    SubSeq(w.data, 1, n * FrameSize(w))

\* Wave_read.setpos(pos) followed by readframes(n): n frames from frame pos
readframes(w, pos, n) ==
    SubSeq(w.data, pos * FrameSize(w) + 1, (pos + n) * FrameSize(w))

\* b"\x00" * n
ZeroBytes(n) == [i \in 1..n |-> 0]

\* round() in the place of int(): the quotient rounded to the nearest frame
OffsetFrames_rounded(framerate, delay_ms) ==
    (framerate * (IF delay_ms < 0 THEN -delay_ms ELSE delay_ms) + 500) \div 1000

\* int(framerate * abs(delay_ms) / 1000.0): the product is exact, the
\* quotient is non-negative, and int() truncates
OffsetFrames(framerate, delay_ms) ==
    (framerate * (IF delay_ms < 0 THEN -delay_ms ELSE delay_ms)) \div 1000

\* apply_offset with "offset_frames > total_frames" as the guard of the raise
apply_offset_strict_guard(input_wav, output_wav, delay_ms) ==
    LET total_frames  == getnframes(input_wav)
        offset_frames == OffsetFrames(input_wav.framerate, delay_ms)
        audio_data ==
            IF delay_ms < 0
            THEN readframes(input_wav, offset_frames, total_frames - offset_frames)
            ELSE IF delay_ms > 0
            THEN ZeroBytes(offset_frames * input_wav.channels * input_wav.sampwidth)
                     \o readframes(input_wav, 0, total_frames)
            ELSE readframes(input_wav, 0, total_frames)
    IN  IF delay_ms < 0 /\ offset_frames > total_frames
        THEN [raised |-> TRUE, output_wav |-> output_wav]
        ELSE [raised |-> FALSE,
              output_wav |-> [input_wav EXCEPT !.data = audio_data]]

\* apply_offset with setnchannels and setsampwidth given each other's value
apply_offset_swapped_format(input_wav, output_wav, delay_ms) ==
    LET total_frames  == getnframes(input_wav)
        offset_frames == OffsetFrames(input_wav.framerate, delay_ms)
        audio_data ==
            IF delay_ms < 0
            THEN readframes(input_wav, offset_frames, total_frames - offset_frames)
            ELSE IF delay_ms > 0
            THEN ZeroBytes(offset_frames * input_wav.channels * input_wav.sampwidth)
                     \o readframes(input_wav, 0, total_frames)
            ELSE readframes(input_wav, 0, total_frames)
    IN  IF delay_ms < 0 /\ offset_frames >= total_frames
        THEN [raised |-> TRUE, output_wav |-> output_wav]
        ELSE [raised |-> FALSE,
              output_wav |-> [input_wav EXCEPT !.data = audio_data,
                                               !.channels = input_wav.sampwidth,
                                               !.sampwidth = input_wav.channels]]

\* apply_offset with the silence sized without the channel count
apply_offset_silence_ignores_channels(input_wav, output_wav, delay_ms) ==
    LET total_frames  == getnframes(input_wav)
        offset_frames == OffsetFrames(input_wav.framerate, delay_ms)
        audio_data ==
            IF delay_ms < 0
            THEN readframes(input_wav, offset_frames, total_frames - offset_frames)
            ELSE IF delay_ms > 0
            THEN ZeroBytes(offset_frames * input_wav.sampwidth)
                     \o readframes(input_wav, 0, total_frames)
            ELSE readframes(input_wav, 0, total_frames)
    IN  IF delay_ms < 0 /\ offset_frames >= total_frames
        THEN [raised |-> TRUE, output_wav |-> output_wav]
        ELSE [raised |-> FALSE,
              output_wav |-> [input_wav EXCEPT !.data = audio_data]]

\* apply_offset(input_wav, output_wav, delay_ms).  output_wav is the file at
\* the destination path before the call (NoFile when there is none); the
\* result says whether ValueError was raised and what the destination path
\* holds afterwards.
apply_offset(input_wav, output_wav, delay_ms) ==
    LET channels      == input_wav.channels
        sampwidth     == input_wav.sampwidth
        framerate     == input_wav.framerate
        total_frames  == getnframes(input_wav)
        comptype      == input_wav.comptype
        compname      == input_wav.compname
        offset_frames == OffsetFrames(framerate, delay_ms)
        audio_data ==
            IF delay_ms < 0
            THEN readframes(input_wav, offset_frames, total_frames - offset_frames)
            ELSE IF delay_ms > 0
            THEN ZeroBytes(offset_frames * channels * sampwidth)
                     \o readframes(input_wav, 0, total_frames)
            ELSE readframes(input_wav, 0, total_frames)
    IN  IF delay_ms < 0 /\ offset_frames >= total_frames
        THEN [raised |-> TRUE, output_wav |-> output_wav]
        ELSE [raised |-> FALSE,
              output_wav |-> [channels  |-> channels,
                              sampwidth |-> sampwidth,
                              framerate |-> framerate,
                              comptype  |-> comptype,
                              compname  |-> compname,
                              data      |-> audio_data]]


(***************************************************************************)
(* The codec service (RockAudio convert).  A .vgs file is represented by   *)
(* the PCM container it decodes to; a file the codec left half-written     *)
(* decodes to nothing.  The audio fidelity of the codec is the tool's      *)
(* business and is not modelled.                                           *)
(***************************************************************************)
Encode(pcm) == [vgs |-> pcm]
Decode(v)   == v.vgs
Garbage     == [vgs |-> NoFile]

(***************************************************************************)
(* The directory tree of the run.                                          *)
(*   - an archive unit u in Units is a folder holding MAIN.HDR and         *)
(*     MAIN*.ARK; folder NoArkHdr holds a MAIN.HDR without any .ARK;       *)
(*   - location 0 is the main folder outside every workspace, location u   *)
(*     is the workspace <hdr_folder u>/temp_out;                           *)
(*   - a .vgs file is named by its directory segments below its location   *)
(*     and its stem.                                                       *)
(***************************************************************************)
Units    == 1..MaxUnits
NoArkHdr == MaxUnits + 1
Hdrs     == 1..NoArkHdr
Isos     == 1..MaxIsos
Main     == 0

\* list(hdr_folder.glob("MAIN*.ARK")) is non-empty
ark_candidates(h) == h \in Units

DigitSeq == <<"0","1","2","3","4","5","6","7","8","9">>
DigitChar(k) == DigitSeq[(k % 10) + 1]

File(dir, stem) == [dir |-> dir, stem |-> stem]

\* Path segments from the main folder to the folder of hdr h
HdrParts(h) == <<<<"g","e","n", DigitChar(h)>>>>

\* A short PCM container: mono, 8 bit, 1000 frames per second
Pcm(nframes) ==
    [channels |-> 1, sampwidth |-> 1, framerate |-> 1000,
     comptype |-> "NONE", compname |-> "not compressed",
     data |-> [i \in 1..nframes |-> i]]

Track(k)    == File(<<seg_songs>>, <<"t", DigitChar(k)>>)
Practice    == File(<<seg_songs>>, <<"t", "1", "_", "P", "5", "0">>)
SfxFile     == File(<<<<"S","f","x">>>>, <<"h", "i", "t">>)
TutorialFile == File(<<seg_songs, <<"T","u","t","o","r","i","a","l">>>>, <<"t", "0">>)

\* What each archive holds before the run: unit 1 holds MaxAssets tracks, a
\* practice variant and a sound effect; every other unit holds one track.
\* Track 1 is one frame long, the others are longer.
PackedFiles(u) ==
    IF u = 1
    THEN [f \in {Track(k) : k \in 1..MaxAssets} \cup {Practice, SfxFile} |->
            IF f = Track(1) THEN Encode(Pcm(1)) ELSE Encode(Pcm(5))]
    ELSE [f \in {Track(u)} |-> Encode(Pcm(5))]

\* The .vgs files lying loose in the main folder before the run
LooseFiles ==
    [f \in {Track(9), TutorialFile} |-> Encode(Pcm(5))]

\* The archive units a disc image holds
IsoUnits(i) == {i + 1} \cap Units

NoFiles == [f \in {} |-> Garbage]

Tools == {"RockAudio.exe", "arkhelper.exe", "7z.exe"}

VARIABLES
    pc,          \* where main is
    present,     \* the tool binaries that exist in z_dependencies
    skip,        \* args.skip
    delay_ms,    \* the delay of the run
    script_dir,  \* Path(__file__).parent.resolve(), as path segments
    iso_at,      \* each disc image: "main" or "processed"
    iso_todo,    \* images of the glob not visited yet
    on_disk,     \* the hdr folders whose MAIN.HDR exists below main
    main_hdrs,   \* hdr folders of the rglob not visited yet
    cur,         \* the hdr folder being processed (0: none)
    ws_exists,   \* the units whose temp_out directory exists
    marker,      \* the units whose temp_out holds ark.txt
    tree,        \* location -> (.vgs file -> content)
    ark,         \* unit -> the files its MAIN.HDR/MAIN.ARK pair holds
    vgs_files,   \* the list gathered by the running process_vgs_files
    vgs_todo,    \* its entries not visited yet
    faults,      \* failures the environment has produced so far
    \* history of the run
    extracted,   \* images whose extraction returned zero
    iso_errors,  \* images whose failure was printed
    visited,     \* units extract_ark was called for
    unpacked,    \* units whose ark2dir returned zero
    packs,       \* units dir2ark was invoked for
    ark_failed,  \* units whose ark2dir or dir2ark returned non-zero
    vgs_errors,  \* <<location, file>> whose failure was printed
    pass_ok,     \* entries of vgs_files replaced by the running pass
    pass_err,    \* entries of vgs_files the running pass printed an error for
    env_hit,     \* entries of vgs_files whose codec call returned non-zero
    xforms,      \* <<location, file>> -> times it was replaced by a transform
    loose_ran,   \* the pass over the main folder has started
    \* a direct call of one operation, outside main
    call         \* the last direct call and its result

vars == <<pc, present, skip, delay_ms, script_dir, iso_at, iso_todo, on_disk, main_hdrs,
          cur, ws_exists, marker, tree, ark, vgs_files, vgs_todo, faults,
          extracted, iso_errors, visited, unpacked, packs, ark_failed,
          vgs_errors, pass_ok, pass_err, env_hit, xforms, loose_ran, call>>

fsVars   == <<ws_exists, marker, tree, ark>>
isoVars  == <<iso_at, iso_todo, on_disk, extracted, iso_errors>>
passVars == <<pass_ok, pass_err, env_hit>>
histVars == <<visited, unpacked, packs, ark_failed, vgs_errors, passVars, xforms,
              loose_ran>>
argVars  == <<present, skip, delay_ms, script_dir>>

NoCall == [op |-> "none"]

\* root_path = script_dir / "main": the segments of the absolute path of
\* the main folder
RootParts == script_dir \o <<seg_main>>

\* vgs_path.parts without the file name, for a file at a location
PartsOf(loc, f) ==
    IF loc = Main THEN RootParts \o f.dir
    ELSE RootParts \o HdrParts(loc) \o <<seg_temp_out>> \o f.dir

\* The directory the script is installed in when the run of main and the
\* direct calls of the handlers are examined
seg_sep   == <<"/">>
seg_opt   == <<"o","p","t">>
seg_tool  == <<"r","e","s","y","n","c">>
PlainScriptDir == <<seg_sep, seg_opt, seg_tool>>


(***************************************************************************)
(* gather_vgs_files(root_dir): root_dir.rglob("*.vgs") filtered on the     *)
(* parts of each full path.  Location Main stands for root_path, whose     *)
(* rglob also descends into every temp_out that exists below it; location  *)
(* u stands for the workspace of unit u.  The result is a set of           *)
(* <<location, file>>.                                                     *)
(***************************************************************************)
Under(loc, exists, t) ==
    IF loc = Main
    THEN {<<Main, f>> : f \in DOMAIN t[Main]}
         \cup UNION {{<<u, f>> : f \in DOMAIN t[u]} : u \in exists}
    ELSE {<<loc, f>> : f \in DOMAIN t[loc]}

gather_vgs_files(loc, exists, t) ==
    {k \in Under(loc, exists, t) : Eligible(PartsOf(k[1], k[2]), k[2].stem)}

(***************************************************************************)
(* One iteration of the loop of process_vgs_files on the file f of the     *)
(* directory content files, with its try / except Exception / finally.     *)
(* env is what the environment does to the codec calls of this iteration:  *)
(* "ok", "convert_fails" (the first call returns non-zero),                *)
(* "back_fails" (the second call returns non-zero and leaves no output),   *)
(* "back_fails_partial" (the second call returns non-zero and leaves a     *)
(* half-written <stem>_temp.vgs).  temp_wav and processed_wav are unlinked *)
(* by the finally clause on every path, so they never outlive the          *)
(* iteration.  A file of the gathered list that an earlier iteration moved *)
(* away, or that holds nothing the codec can decode, makes the first call  *)
(* return non-zero.  The result gives the directory afterwards, whether an *)
(* error                                                                   *)
(* was printed, whether the original was replaced, and whether the         *)
(* environment's failure was reached.                                      *)
(***************************************************************************)
TempVgs(f) == File(f.dir, f.stem \o suffix_temp)

Put(files, f, v) == [x \in DOMAIN files \cup {f} |-> IF x = f THEN v ELSE files[x]]
Drop(files, f)   == [x \in DOMAIN files \ {f} |-> files[x]]

\* the iteration with the second convert writing onto vgs_path itself
process_vgs_in_place(files, f, delay, rockaudio, env) ==
    LET failed(fs, hit) == [files |-> fs, error |-> TRUE, replaced |-> FALSE, fault |-> hit]
        temp_wav == Decode(files[f])
        r == apply_offset(temp_wav, NoFile, delay)
    IN  IF ~rockaudio THEN failed(files, FALSE)
        ELSE IF env = "convert_fails" THEN failed(files, TRUE)
        ELSE IF f \notin DOMAIN files THEN failed(files, FALSE)
        ELSE IF temp_wav = NoFile THEN failed(files, FALSE)
        ELSE IF r.raised THEN failed(files, FALSE)
        ELSE IF env = "back_fails" THEN failed(files, TRUE)
        ELSE IF env = "back_fails_partial"
             THEN failed(Put(files, f, Garbage), TRUE)
        ELSE [files    |-> Put(files, f, Encode(r.output_wav)),
              error    |-> FALSE,
              replaced |-> TRUE,
              fault    |-> FALSE]

process_vgs(files, f, delay, rockaudio, env) ==
    LET failed(fs, hit) == [files |-> fs, error |-> TRUE, replaced |-> FALSE, fault |-> hit]
        temp_wav == Decode(files[f])
        r == apply_offset(temp_wav, NoFile, delay)
    IN  IF ~rockaudio THEN failed(files, FALSE)              \* FileNotFoundError
        ELSE IF env = "convert_fails" THEN failed(files, TRUE)
        ELSE IF f \notin DOMAIN files THEN failed(files, FALSE) \* the source is gone
        ELSE IF temp_wav = NoFile THEN failed(files, FALSE)  \* nothing to decode
        ELSE IF r.raised THEN failed(files, FALSE)           \* ValueError
        ELSE IF env = "back_fails" THEN failed(files, TRUE)
        ELSE IF env = "back_fails_partial"
             THEN failed(Put(files, TempVgs(f), Garbage), TRUE)
        ELSE \* os.replace(temp_vgs, vgs_path)
             [files    |-> Put(Drop(files, TempVgs(f)), f, Encode(r.output_wav)),
              error    |-> FALSE,
              replaced |-> TRUE,
              fault    |-> FALSE]

CodecEnv == {"ok", "convert_fails", "back_fails", "back_fails_partial"}

\* the loop without the except clause: an error of the iteration ends the run
except_clause_missing(r, rest, after) ==
    IF r.error THEN "crashed" ELSE IF rest = {} THEN after ELSE "vgs"

\* "except Exception as e: print(...)": whatever the iteration raised, the
\* loop goes on with the rest of the list and returns after the last entry
except_clause(r, rest, after) ==
    IF rest = {} THEN after ELSE "vgs"

Count(x, k) == IF k \in DOMAIN x THEN x[k] ELSE 0
Bump(x, k)  == [j \in DOMAIN x \cup {k} |-> IF j = k THEN Count(x, k) + 1 ELSE x[j]]

(***************************************************************************)
(* extract_ark(hdr_path, arkhelper, temp_dir) on the workspace of unit u:  *)
(* mkdir, ark2dir, then the marker.  env is "ok", "fails" (non-zero exit   *)
(* before anything was written) or "fails_partial" (non-zero exit after    *)
(* one file was written).  The result gives the workspace afterwards,      *)
(* whether the call raised and whether marker_file.touch() was executed.   *)
(***************************************************************************)
Overlay(old, new) ==
    [x \in DOMAIN old \cup DOMAIN new |-> IF x \in DOMAIN new THEN new[x] ELSE old[x]]

OneOf(packed) ==
    IF DOMAIN packed = {} THEN packed
    ELSE [x \in {CHOOSE f \in DOMAIN packed : TRUE} |-> packed[x]]

\* extract_ark with the marker written before ark2dir is run
extract_ark_marker_first(files, has_marker, packed, arkhelper, env) ==
    IF ~arkhelper \/ env = "fails"
    THEN [exists |-> TRUE, files |-> files, marker |-> TRUE,
          raised |-> TRUE, unpacked |-> FALSE, touched |-> ~has_marker]
    ELSE IF env = "fails_partial"
    THEN [exists |-> TRUE, files |-> Overlay(files, OneOf(packed)),
          marker |-> TRUE, raised |-> TRUE, unpacked |-> FALSE,
          touched |-> ~has_marker]
    ELSE [exists |-> TRUE, files |-> Overlay(files, packed), marker |-> TRUE,
          raised |-> FALSE, unpacked |-> TRUE, touched |-> ~has_marker]

extract_ark(files, has_marker, packed, arkhelper, env) ==
    IF ~arkhelper \/ env = "fails"
    THEN [exists |-> TRUE, files |-> files, marker |-> has_marker,
          raised |-> TRUE, unpacked |-> FALSE, touched |-> FALSE]
    ELSE IF env = "fails_partial"
    THEN [exists |-> TRUE, files |-> Overlay(files, OneOf(packed)),
          marker |-> has_marker, raised |-> TRUE, unpacked |-> FALSE,
          touched |-> FALSE]
    ELSE [exists |-> TRUE, files |-> Overlay(files, packed), marker |-> TRUE,
          raised |-> FALSE, unpacked |-> TRUE, touched |-> ~has_marker]

\* repack_ark without the test of the marker
repack_ark_unguarded(files, has_marker, packed, arkhelper, env) ==
    IF ~arkhelper
    THEN [ark |-> packed, invoked |-> FALSE, result |-> "raised"]
    ELSE IF env = "fails"
    THEN [ark |-> packed, invoked |-> TRUE, result |-> "raised"]
    ELSE [ark |-> files, invoked |-> TRUE, result |-> "success"]

(***************************************************************************)
(* repack_ark(temp_dir, hdr_folder, arkhelper): nothing without the        *)
(* marker, else dir2ark.  The result gives the archive pair afterwards,    *)
(* whether dir2ark was invoked and how the call ended.                     *)
(***************************************************************************)
repack_ark(files, has_marker, packed, arkhelper, env) ==
    IF ~has_marker
    THEN [ark |-> packed, invoked |-> FALSE, result |-> "skipped"]
    ELSE IF ~arkhelper
    THEN [ark |-> packed, invoked |-> FALSE, result |-> "raised"]
    ELSE IF env = "fails"
    THEN [ark |-> packed, invoked |-> TRUE, result |-> "raised"]
    ELSE [ark |-> files, invoked |-> TRUE, result |-> "success"]

ToolEnv    == {"ok", "fails"}
ExtractEnv == {"ok", "fails", "fails_partial"}

\* a failure of the environment is possible while the budget lasts
MayFail(env) == env = "ok" \/ faults < MaxFaults


(***************************************************************************)
(* The run of main.                                                        *)
(***************************************************************************)
DelayValues == {-2, 2}

\* A temp_out left behind by an earlier, interrupted run may exist for unit 1
StaleChoices == {{}, {1}}

InitTree(stale) ==
    [loc \in {Main} \cup Units |->
        IF loc = Main THEN LooseFiles
        ELSE IF loc \in stale THEN PackedFiles(loc)
        ELSE NoFiles]

Init ==
    /\ pc = "start"
    /\ present \in SUBSET Tools
    /\ skip \in BOOLEAN
    /\ delay_ms \in DelayValues
    /\ script_dir = PlainScriptDir
    /\ iso_at = [i \in Isos |-> "main"]
    /\ iso_todo = {}
    /\ on_disk = {1, NoArkHdr}
    /\ main_hdrs = {}
    /\ cur = 0
    /\ \E stale \in StaleChoices :
          /\ ws_exists = stale
          /\ marker = stale
          /\ tree = InitTree(stale)
    /\ ark = [u \in Units |-> PackedFiles(u)]
    /\ vgs_files = {}
    /\ vgs_todo = {}
    /\ faults = 0
    /\ extracted = {}
    /\ iso_errors = {}
    /\ visited = {}
    /\ unpacked = {}
    /\ packs = {}
    /\ ark_failed = {}
    /\ vgs_errors = {}
    /\ pass_ok = {}
    /\ pass_err = {}
    /\ env_hit = {}
    /\ xforms = [k \in {} |-> 0]
    /\ loose_ran = FALSE
    /\ call = NoCall

\* main without the test of args.skip
AfterIsos_ignores_skip == "discover"

\* main, after extract_any_isos returned
AfterIsos == IF skip THEN "build_iso" ELSE "discover"

\* extract_any_isos: 7z.exe is absent, warn and return
IsosWithout7z ==
    /\ pc = "start"
    /\ "7z.exe" \notin present
    /\ pc' = AfterIsos
    /\ UNCHANGED <<argVars, isoVars, main_hdrs, cur, fsVars, vgs_files, vgs_todo,
                   faults, histVars, call>>

\* extract_any_isos: mkdir of the processed folder and the glob of *.iso
IsosGlob ==
    /\ pc = "start"
    /\ "7z.exe" \in present
    /\ iso_todo' = {i \in Isos : iso_at[i] = "main"}
    /\ pc' = "isos"
    /\ UNCHANGED <<argVars, iso_at, on_disk, extracted, iso_errors, main_hdrs, cur,
                   fsVars, vgs_files, vgs_todo, faults, histVars, call>>

\* the iteration with the rename placed in a finally clause: the image is
\* moved whether or not 7z returned zero
iso_iteration_moves_always(at, env) ==
    IF env = "ok"
    THEN [iso_at |-> "processed", extracted |-> TRUE, error |-> FALSE]
    ELSE [iso_at |-> "processed", extracted |-> FALSE, error |-> TRUE]

\* One iteration of the loop of extract_any_isos on an image lying at "at":
\* 7z x returns zero and the image is renamed into the processed folder, or
\* it returns non-zero, the error is printed and the loop continues
iso_iteration(at, env) ==
    IF env = "ok"
    THEN [iso_at |-> "processed", extracted |-> TRUE, error |-> FALSE]
    ELSE [iso_at |-> at, extracted |-> FALSE, error |-> TRUE]

\* extract_any_isos: one iteration of the loop
ExtractIso ==
    /\ pc = "isos"
    /\ \E i \in iso_todo, env \in ToolEnv :
          /\ MayFail(env)
          /\ iso_todo' = iso_todo \ {i}
          /\ LET r == iso_iteration(iso_at[i], env)
             IN  /\ on_disk' = IF r.extracted THEN on_disk \cup IsoUnits(i) ELSE on_disk
                 /\ extracted' = IF r.extracted THEN extracted \cup {i} ELSE extracted
                 /\ iso_at' = [iso_at EXCEPT ![i] = r.iso_at]
                 /\ iso_errors' = IF r.error THEN iso_errors \cup {i} ELSE iso_errors
                 /\ faults' = IF r.error THEN faults + 1 ELSE faults
    /\ UNCHANGED <<pc, argVars, main_hdrs, cur, fsVars, vgs_files, vgs_todo,
                   histVars, call>>

\* extract_any_isos returns
IsosDone ==
    /\ pc = "isos"
    /\ iso_todo = {}
    /\ pc' = AfterIsos
    /\ UNCHANGED <<argVars, isoVars, main_hdrs, cur, fsVars, vgs_files, vgs_todo,
                   faults, histVars, call>>

\* main_hdrs = list(root_path.rglob("MAIN.HDR"))
Discover ==
    /\ pc = "discover"
    /\ main_hdrs' = on_disk
    /\ pc' = "units"
    /\ UNCHANGED <<argVars, isoVars, cur, fsVars, vgs_files, vgs_todo, faults,
                   histVars, call>>

\* a hdr folder without MAIN*.ARK: continue
SkipHdr ==
    /\ pc = "units"
    /\ \E h \in main_hdrs :
          /\ ~ark_candidates(h)
          /\ main_hdrs' = main_hdrs \ {h}
    /\ UNCHANGED <<pc, argVars, isoVars, cur, fsVars, vgs_files, vgs_todo, faults,
                   histVars, call>>

\* main with the call of extract_ark wrapped in a try whose except clause
\* prints the error and goes on
AfterExtract_caught(raised) == "gather"

\* main after extract_ark: the exception it raises is caught nowhere and
\* ends the run, else process_vgs_files(temp_out, ...) is next
AfterExtract(raised) == IF raised THEN "crashed" ELSE "gather"

\* extract_ark(hdr_path, arkhelper, temp_out) called by main
ExtractArk ==
    /\ pc = "units"
    /\ \E h \in main_hdrs, env \in ExtractEnv :
          /\ ark_candidates(h)
          /\ MayFail(env)
          /\ (env # "ok") => "arkhelper.exe" \in present
          /\ LET r == extract_ark(tree[h], h \in marker, ark[h],
                                  "arkhelper.exe" \in present, env)
             IN  /\ ws_exists' = ws_exists \cup {h}
                 /\ tree' = [tree EXCEPT ![h] = r.files]
                 /\ marker' = IF r.marker THEN marker \cup {h} ELSE marker \ {h}
                 /\ unpacked' = IF r.unpacked THEN unpacked \cup {h} ELSE unpacked
                 /\ pc' = AfterExtract(r.raised)
                 /\ faults' = IF env # "ok" THEN faults + 1 ELSE faults
                 /\ ark_failed' = IF env # "ok" THEN ark_failed \cup {h}
                                  ELSE ark_failed
          /\ main_hdrs' = main_hdrs \ {h}
          /\ cur' = h
          /\ visited' = visited \cup {h}
    /\ UNCHANGED <<argVars, isoVars, ark, vgs_files, vgs_todo, packs, vgs_errors,
                   passVars, xforms, loose_ran, call>>

\* main going on to the next hdr folder as soon as process_vgs_files returned
AfterVgs_next_unit == IF loose_ran THEN "build_iso" ELSE "units"

\* process_vgs_files: vgs_files = gather_vgs_files(root_dir); return when
\* the list is empty
AfterVgs == IF loose_ran THEN "build_iso" ELSE "repack"

Gather ==
    /\ pc = "gather"
    /\ LET found == gather_vgs_files(cur, ws_exists, tree)
       IN  /\ vgs_files' = found
           /\ vgs_todo' = found
           /\ pc' = IF found = {} THEN AfterVgs ELSE "vgs"
    /\ pass_ok' = {}
    /\ pass_err' = {}
    /\ env_hit' = {}
    /\ UNCHANGED <<argVars, isoVars, main_hdrs, cur, fsVars, faults, visited,
                   unpacked, packs, ark_failed, vgs_errors, xforms, loose_ran, call>>

\* process_vgs_files: one iteration of the loop; after the last one the
\* function returns
ProcessVgs ==
    /\ pc = "vgs"
    /\ \E k \in vgs_todo, env \in CodecEnv :
          /\ MayFail(env)
          /\ LET loc == k[1]
                 f   == k[2]
                 r   == process_vgs(tree[loc], f, delay_ms,
                                    "RockAudio.exe" \in present, env)
             IN  /\ (env # "ok") => r.fault
                 /\ tree' = [tree EXCEPT ![loc] = r.files]
                 /\ vgs_errors' = IF r.error THEN vgs_errors \cup {k} ELSE vgs_errors
                 /\ pass_err' = IF r.error THEN pass_err \cup {k} ELSE pass_err
                 /\ pass_ok' = IF r.replaced THEN pass_ok \cup {k} ELSE pass_ok
                 /\ env_hit' = IF r.fault THEN env_hit \cup {k} ELSE env_hit
                 /\ xforms' = IF r.replaced THEN Bump(xforms, k) ELSE xforms
                 /\ faults' = IF r.fault THEN faults + 1 ELSE faults
                 /\ pc' = except_clause(r, vgs_todo \ {k}, AfterVgs)
          /\ vgs_todo' = vgs_todo \ {k}
    /\ UNCHANGED <<argVars, isoVars, main_hdrs, cur, ws_exists, marker, ark,
                   vgs_files, visited, unpacked, packs, ark_failed, loose_ran, call>>

\* repack_ark(temp_out, hdr_folder, arkhelper) called by main
RepackArk ==
    /\ pc = "repack"
    /\ \E env \in ToolEnv :
          /\ MayFail(env)
          /\ LET r == repack_ark(tree[cur], cur \in marker, ark[cur],
                                 "arkhelper.exe" \in present, env)
             IN  /\ (env = "fails") => (r.invoked /\ r.result = "raised")
                 /\ ark' = [ark EXCEPT ![cur] = r.ark]
                 /\ packs' = IF r.invoked THEN packs \cup {cur} ELSE packs
                 /\ pc' = IF r.result = "raised" THEN "crashed" ELSE "rmtree"
                 /\ faults' = IF env = "fails" THEN faults + 1 ELSE faults
                 /\ ark_failed' = IF env = "fails" THEN ark_failed \cup {cur}
                                  ELSE ark_failed
    /\ UNCHANGED <<argVars, isoVars, main_hdrs, cur, ws_exists, marker, tree,
                   vgs_files, vgs_todo, visited, unpacked, vgs_errors, passVars,
                   xforms, loose_ran, call>>

\* shutil.rmtree(temp_out, ignore_errors=True): the tree is removed, or
\* the removal fails and the failure is ignored
rmtree(exists, u, env) == IF env = "ok" THEN exists \ {u} ELSE exists

Rmtree ==
    /\ pc = "rmtree"
    /\ \E env \in ToolEnv :
          /\ MayFail(env)
          /\ ws_exists' = rmtree(ws_exists, cur, env)
          /\ marker' = marker \cap ws_exists'
          /\ tree' = IF cur \in ws_exists' THEN tree
                     ELSE [tree EXCEPT ![cur] = NoFiles]
          /\ faults' = IF env = "fails" THEN faults + 1 ELSE faults
    /\ cur' = 0
    /\ pc' = "units"
    /\ UNCHANGED <<argVars, isoVars, main_hdrs, ark, vgs_files, vgs_todo,
                   histVars, call>>

\* the loop over main_hdrs is over: process_vgs_files(root_path, ...)
LoosePass ==
    /\ pc = "units"
    /\ main_hdrs = {}
    /\ loose_ran' = TRUE
    /\ cur' = Main
    /\ pc' = "gather"
    /\ UNCHANGED <<argVars, isoVars, main_hdrs, fsVars, vgs_files, vgs_todo,
                   faults, visited, unpacked, packs, ark_failed, vgs_errors,
                   passVars, xforms, call>>

\* build_iso(root_path, dep_dir), then "Done." or, in skip mode, sys.exit()
BuildIso ==
    /\ pc = "build_iso"
    /\ pc' = IF skip THEN "exited" ELSE "done"
    /\ UNCHANGED <<argVars, isoVars, main_hdrs, cur, fsVars, vgs_files, vgs_todo,
                   faults, histVars, call>>

Next ==
    \/ IsosWithout7z
    \/ IsosGlob
    \/ ExtractIso
    \/ IsosDone
    \/ Discover
    \/ SkipHdr
    \/ ExtractArk
    \/ Gather
    \/ ProcessVgs
    \/ RepackArk
    \/ Rmtree
    \/ LoosePass
    \/ BuildIso

Spec == Init /\ [][Next]_vars


(***************************************************************************)
(* apply_offset called directly, on PCM containers drawn from a bounded    *)
(* set: one or two channels, one or two bytes per sample, three frame      *)
(* rates, 0..MaxFrames frames, an all-zero payload and two non-zero ones,  *)
(* delays of -3..3 ms; and the 44100 Hz mono 16-bit container with delays  *)
(* of -60 and +60 ms.  The destination path holds nothing or an older      *)
(* file before the call.                                                   *)
(***************************************************************************)
Sample(seed, j) == (seed * j) % 256

Wav(channels, sampwidth, framerate, nframes, seed) ==
    [channels |-> channels, sampwidth |-> sampwidth, framerate |-> framerate,
     comptype |-> "NONE", compname |-> "not compressed",
     data |-> [j \in 1..(nframes * channels * sampwidth) |-> Sample(seed, j)]]

ShortInputs ==
    {Wav(c, w, r, n, s) : c \in {1, 2}, w \in {1, 2}, r \in {500, 1000, 1500},
                          n \in 0..MaxFrames, s \in {0, 1, 37}}

CdInputs == {Wav(1, 2, 44100, n, 1) : n \in {2646, 2650}}

OlderFile == Wav(2, 1, 8000, 1, 5)

OffsetCalls ==
    {[op |-> "apply_offset", input_wav |-> w, before |-> b, delay_ms |-> d,
      status |-> "pending", after |-> b] :
        w \in ShortInputs, b \in {NoFile, OlderFile}, d \in -3..3}
    \cup
    {[op |-> "apply_offset", input_wav |-> w, before |-> b, delay_ms |-> d,
      status |-> "pending", after |-> b] :
        w \in CdInputs, b \in {NoFile}, d \in {-60, 60}}

\* the state outside main: nothing of the run has happened
Idle ==
    /\ pc = "direct"
    /\ skip = FALSE
    /\ delay_ms = 0
    /\ iso_at = [i \in Isos |-> "main"]
    /\ iso_todo = {}
    /\ on_disk = {}
    /\ main_hdrs = {}
    /\ cur = 0
    /\ vgs_files = {}
    /\ vgs_todo = {}
    /\ faults = 0
    /\ extracted = {}
    /\ iso_errors = {}
    /\ visited = {}
    /\ unpacked = {}
    /\ packs = {}
    /\ ark_failed = {}
    /\ vgs_errors = {}
    /\ pass_ok = {}
    /\ pass_err = {}
    /\ env_hit = {}
    /\ xforms = [k \in {} |-> 0]
    /\ loose_ran = FALSE

InitOffset ==
    /\ Idle
    /\ present = Tools
    /\ script_dir = PlainScriptDir
    /\ ws_exists = {}
    /\ marker = {}
    /\ tree = InitTree({})
    /\ ark = [u \in Units |-> PackedFiles(u)]
    /\ call \in OffsetCalls

CallApplyOffset ==
    /\ pc = "direct"
    /\ call.op = "apply_offset"
    /\ call.status = "pending"
    /\ LET r == apply_offset(call.input_wav, call.before, call.delay_ms)
       IN  call' = [call EXCEPT !.status = IF r.raised THEN "raised" ELSE "returned",
                                !.after = r.output_wav]
    /\ UNCHANGED <<pc, argVars, isoVars, main_hdrs, cur, fsVars, vgs_files,
                   vgs_todo, faults, histVars>>

\* apply_offset called on the output of a call that padded, with the
\* opposite delay and a destination path that holds nothing
CallApplyOffsetBack ==
    /\ pc = "direct"
    /\ call.op = "apply_offset"
    /\ call.status = "returned"
    /\ call.delay_ms > 0
    /\ LET r == apply_offset(call.after, NoFile, - call.delay_ms)
       IN  call' = [op        |-> "pad_then_trim",
                    input_wav |-> call.input_wav,
                    delay_ms  |-> call.delay_ms,
                    padded    |-> call.after,
                    status    |-> IF r.raised THEN "raised" ELSE "returned",
                    after     |-> r.output_wav]
    /\ UNCHANGED <<pc, argVars, isoVars, main_hdrs, cur, fsVars, vgs_files,
                   vgs_todo, faults, histVars>>

NextOffset ==
    \/ CallApplyOffset
    \/ CallApplyOffsetBack

SpecOffset == InitOffset /\ [][NextOffset]_vars


(***************************************************************************)
(* The archive unit handler called directly, in any order, on the          *)
(* workspace of unit 1: extract_ark, one iteration of process_vgs_files,   *)
(* repack_ark and the removal of the workspace.  Before the first call the *)
(* workspace does not exist, or exists empty without a marker (extraction  *)
(* never ran), or is the populated, marked workspace of an earlier run.    *)
(***************************************************************************)
WorkspaceChoices == {"absent", "empty", "stale"}

InitHandler ==
    /\ Idle
    /\ script_dir = PlainScriptDir
    /\ present \in {Tools, Tools \ {"arkhelper.exe"}}
    /\ \E choice \in WorkspaceChoices :
          /\ ws_exists = IF choice = "absent" THEN {} ELSE {1}
          /\ marker = IF choice = "stale" THEN {1} ELSE {}
          /\ tree = InitTree(IF choice = "stale" THEN {1} ELSE {})
    /\ ark = [u \in Units |-> PackedFiles(u)]
    /\ call = NoCall

CallExtractArk ==
    /\ pc = "direct"
    /\ call.op # "apply_offset"
    /\ \E env \in ExtractEnv :
          /\ MayFail(env)
          /\ (env # "ok") => "arkhelper.exe" \in present
          /\ LET r == extract_ark(tree[1], 1 \in marker, ark[1],
                                  "arkhelper.exe" \in present, env)
             IN  /\ ws_exists' = ws_exists \cup {1}
                 /\ tree' = [tree EXCEPT ![1] = r.files]
                 /\ marker' = IF r.marker THEN marker \cup {1} ELSE marker \ {1}
                 /\ unpacked' = IF r.unpacked THEN unpacked \cup {1} ELSE unpacked
                 /\ faults' = IF env # "ok" THEN faults + 1 ELSE faults
                 /\ ark_failed' = IF env # "ok" THEN ark_failed \cup {1}
                                  ELSE ark_failed
                 /\ call' = [op |-> "extract_ark", unit |-> 1,
                             had_marker |-> 1 \in marker,
                             unpacked |-> r.unpacked,
                             touched |-> r.touched,
                             result |-> IF r.raised THEN "raised" ELSE "success"]
    /\ visited' = visited \cup {1}
    /\ UNCHANGED <<pc, argVars, isoVars, main_hdrs, cur, ark, vgs_files, vgs_todo,
                   packs, vgs_errors, passVars, xforms, loose_ran>>

\* one iteration of process_vgs_files; what a run of main remembers of its
\* passes (vgs_errors, xforms) is not kept for direct calls
CallProcessVgs ==
    /\ pc = "direct"
    /\ call.op # "apply_offset"
    /\ \E k \in gather_vgs_files(1, ws_exists, tree), env \in CodecEnv :
          /\ MayFail(env)
          /\ LET r == process_vgs(tree[1], k[2], -2, "RockAudio.exe" \in present, env)
             IN  /\ (env # "ok") => r.fault
                 /\ tree' = [tree EXCEPT ![1] = r.files]
                 /\ faults' = IF r.fault THEN faults + 1 ELSE faults
                 /\ call' = [op |-> "process_vgs", unit |-> 1,
                             result |-> IF r.error THEN "error" ELSE "replaced"]
    /\ UNCHANGED <<pc, argVars, isoVars, main_hdrs, cur, ws_exists, marker, ark,
                   vgs_files, vgs_todo, visited, unpacked, packs, ark_failed,
                   vgs_errors,
                   passVars, xforms, loose_ran>>

CallRepackArk ==
    /\ pc = "direct"
    /\ call.op # "apply_offset"
    /\ \E env \in ToolEnv :
          /\ MayFail(env)
          /\ LET r == repack_ark(tree[1], 1 \in marker, ark[1],
                                 "arkhelper.exe" \in present, env)
             IN  /\ (env = "fails") => (r.invoked /\ r.result = "raised")
                 /\ ark' = [ark EXCEPT ![1] = r.ark]
                 /\ packs' = IF r.invoked THEN packs \cup {1} ELSE packs
                 /\ faults' = IF env = "fails" THEN faults + 1 ELSE faults
                 /\ ark_failed' = IF env = "fails" THEN ark_failed \cup {1}
                                  ELSE ark_failed
                 /\ call' = [op |-> "repack_ark", unit |-> 1,
                             had_marker |-> 1 \in marker,
                             ark_before |-> ark[1],
                             invoked |-> r.invoked,
                             result |-> r.result]
    /\ UNCHANGED <<pc, argVars, isoVars, main_hdrs, cur, ws_exists, marker, tree,
                   vgs_files, vgs_todo, visited, unpacked, vgs_errors, passVars,
                   xforms, loose_ran>>

CallRmtree ==
    /\ pc = "direct"
    /\ call.op # "apply_offset"
    /\ 1 \in ws_exists
    /\ \E env \in ToolEnv :
          /\ MayFail(env)
          /\ ws_exists' = rmtree(ws_exists, 1, env)
          /\ marker' = marker \cap ws_exists'
          /\ tree' = IF 1 \in ws_exists' THEN tree ELSE [tree EXCEPT ![1] = NoFiles]
          /\ faults' = IF env = "fails" THEN faults + 1 ELSE faults
          /\ call' = [op |-> "rmtree", unit |-> 1, result |-> env]
    /\ UNCHANGED <<pc, argVars, isoVars, main_hdrs, cur, ark, vgs_files, vgs_todo,
                   histVars>>

NextHandler ==
    \/ CallExtractArk
    \/ CallProcessVgs
    \/ CallRepackArk
    \/ CallRmtree

SpecHandler == InitHandler /\ [][NextHandler]_vars


(***************************************************************************)
(* gather_vgs_files called directly on the main folder.  The script is     *)
(* installed in a plain directory, or below a directory named "Songs", or  *)
(* below one named "SFX"; the main folder holds any subset of a few .vgs   *)
(* files: the two of the songs/track1 scenario, stems ending in "_P50",    *)
(* "_p5" and "_p123", and files in folders named "Sfx", "SONGS",           *)
(* "songs/Tutorial" and "menu".                                            *)
(***************************************************************************)
seg_Songs == <<"S","o","n","g","s">>
seg_SONGS == <<"S","O","N","G","S">>
seg_SFX   == <<"S","F","X">>
seg_menu  == <<"m","e","n","u">>

ScriptDirs ==
    {PlainScriptDir, <<seg_sep, seg_Songs, seg_tool>>, <<seg_sep, seg_SFX, seg_tool>>}

Track1File     == File(<<seg_songs>>, <<"t","r","a","c","k","1">>)
Track1P50File  == File(<<seg_songs>>, <<"t","r","a","c","k","1","_","p","5","0">>)
OneDigitFile   == File(<<seg_songs>>, <<"t","_","p","5">>)
ThreeDigitFile == File(<<seg_SONGS>>, <<"t","_","p","1","2","3">>)
MenuFile       == File(<<seg_menu>>, <<"m","1">>)

GatherFiles ==
    {Track1File, Track1P50File, Practice, OneDigitFile, ThreeDigitFile,
     SfxFile, TutorialFile, MenuFile}

InitGather ==
    /\ Idle
    /\ present = Tools
    /\ script_dir \in ScriptDirs
    /\ ws_exists = {}
    /\ marker = {}
    /\ \E held \in SUBSET GatherFiles :
          tree = [InitTree({}) EXCEPT ![Main] = [f \in held |-> Encode(Pcm(5))]]
    /\ ark = [u \in Units |-> PackedFiles(u)]
    /\ call = [op |-> "gather_vgs_files", status |-> "pending", result |-> {}]

CallGather ==
    /\ pc = "direct"
    /\ call.op = "gather_vgs_files"
    /\ call.status = "pending"
    /\ call' = [call EXCEPT !.status = "returned",
                            !.result = gather_vgs_files(Main, ws_exists, tree)]
    /\ UNCHANGED <<pc, argVars, isoVars, main_hdrs, cur, fsVars, vgs_files,
                   vgs_todo, faults, histVars>>

NextGather == CallGather

SpecGather == InitGather /\ [][NextGather]_vars

(***************************************************************************)
(* The script run twice over the same main folder with the same delay,     *)
(* every tool binary present and without --skip.  When the first run has   *)
(* printed "Done." the archives and the tree it leaves are recorded and    *)
(* main starts again on them; what a run remembers of itself starts empty. *)
(***************************************************************************)
InitRerun ==
    /\ Init
    /\ present = Tools
    /\ skip = FALSE

StartSecondRun ==
    /\ pc = "done"
    /\ call.op = "none"
    /\ call' = [op |-> "second_run", ark |-> ark, tree |-> tree,
                faults |-> faults]
    /\ pc' = "start"
    /\ iso_todo' = {}
    /\ main_hdrs' = {}
    /\ cur' = 0
    /\ vgs_files' = {}
    /\ vgs_todo' = {}
    /\ extracted' = {}
    /\ iso_errors' = {}
    /\ visited' = {}
    /\ unpacked' = {}
    /\ packs' = {}
    /\ ark_failed' = {}
    /\ vgs_errors' = {}
    /\ pass_ok' = {}
    /\ pass_err' = {}
    /\ env_hit' = {}
    /\ xforms' = [k \in {} |-> 0]
    /\ loose_ran' = FALSE
    /\ UNCHANGED <<argVars, iso_at, on_disk, fsVars, faults>>

NextRerun ==
    \/ IsosGlob
    \/ ExtractIso
    \/ IsosDone
    \/ Discover
    \/ SkipHdr
    \/ ExtractArk
    \/ Gather
    \/ ProcessVgs
    \/ RepackArk
    \/ Rmtree
    \/ LoosePass
    \/ BuildIso
    \/ StartSecondRun

SpecRerun == InitRerun /\ [][NextRerun]_vars

(***************************************************************************)
(* Properties of the run of main (Spec) and of the archive unit handler    *)
(* (SpecHandler).                                                          *)
(***************************************************************************)
BytesPerFrame(w) == w.channels * w.sampwidth
TotalFrames(w)   == Len(w.data) \div BytesPerFrame(w)
Abs(n)           == IF n < 0 THEN -n ELSE n
InUnit(u) == cur = u /\ ~loose_ran /\ pc \in {"gather", "vgs", "repack", "rmtree"}
LeftUnit(u) == u \in visited /\ ~InUnit(u)
RunOver == pc \in {"done", "exited", "crashed"}

\* C1: once the orchestrator has left an archive unit - its unpack failed, a
\* transform failed, its pack failed, or all went well - the workspace
\* directory of that unit no longer exists.  It is stated for the runs in
\* which every tool binary exists, so that a failure is a non-zero exit.
C1_WorkspaceRemovedWhenLeft ==
    (present = Tools) => \A u \in Units : LeftUnit(u) => u \notin ws_exists

\* C2: a non-zero exit of the archive service on one unit does not end the
\* run: the run does not abort, and when it ends every discovered unit that
\* has a data file was taken up and the pass over the main folder has run.
C2_ArchiveFailureContained ==
    (ark_failed # {}) =>
        /\ pc # "crashed"
        /\ RunOver => (loose_ran /\ (on_disk \cap Units) \subseteq visited)

\* C3: repack_ark on a workspace without the marker returns "skipped",
\* does not invoke dir2ark and leaves the archive pair as it was; dir2ark is
\* invoked only when the marker is in the workspace.
C3_RepackNeedsMarker ==
    (call.op = "repack_ark") =>
        /\ ~call.had_marker =>
              /\ call.result = "skipped"
              /\ ~call.invoked
              /\ ark[call.unit] = call.ark_before
        /\ call.invoked => call.had_marker

\* C3 witness: repack_ark returned from a workspace directory that exists
\* without a marker and whose content differs from the archive's
C3_Witness ==
    /\ call.op = "repack_ark"
    /\ ~call.had_marker
    /\ call.unit \in ws_exists
    /\ tree[call.unit] # ark[call.unit]
    /\ call.result = "skipped"

\* C4: within one run no .vgs file is replaced by a transformed version of
\* itself more than once, whichever passes find it.
C4_AtMostOneTransform ==
    \A k \in DOMAIN xforms : xforms[k] <= 1

\* C5: a failure while one asset is processed is printed and stays with that
\* asset.  When a pass is over, every gathered file was either replaced or
\* reported, and each reported file failed for a cause of its own (the codec
\* is absent or returned non-zero on it, it holds nothing to decode, or it is
\* too short to trim); and the step that reports a failure goes on with the
\* next file, or after the last file to the repack of the unit (to the end
\* of the run for the pass over the main folder).
SourceOf(k) == tree[k[1]][k[2]]
OwnCause(k) ==
    \/ "RockAudio.exe" \notin present
    \/ k \in env_hit
    \/ k[2] \notin DOMAIN tree[k[1]]
    \/ Decode(SourceOf(k)) = NoFile
    \/ /\ delay_ms < 0
       /\ (Decode(SourceOf(k)).framerate * Abs(delay_ms)) \div 1000
             >= TotalFrames(Decode(SourceOf(k)))
PassOver == pc = "repack" \/ (loose_ran /\ pc \in {"build_iso", "done"})
C5_PassComplete ==
    PassOver =>
        /\ pass_ok \cup pass_err = vgs_files
        /\ pass_ok \cap pass_err = {}
        /\ \A k \in pass_err : k \in vgs_errors /\ OwnCause(k)
        /\ \A k \in pass_ok : Count(xforms, k) >= 1
C5_FailureStep ==
    (pc = "vgs" /\ pass_err' # pass_err) =>
        /\ vgs_todo' \subseteq vgs_todo
        /\ pc' = IF vgs_todo' # {} THEN "vgs"
                 ELSE IF loose_ran THEN "build_iso" ELSE "repack"
C5_AssetFailureIsolated == [](C5_PassComplete) /\ [][C5_FailureStep]_vars

\* C5 witness: a workspace pass is over in which the codec failed on one
\* file and another file was replaced, and the repack is next
C5_Witness ==
    /\ pc = "repack"
    /\ env_hit # {}
    /\ pass_err # {}
    /\ pass_ok # {}

\* C6: the run aborts only when a tool binary is absent, and then before
\* anything was processed: with a tool absent no disc image is extracted or
\* relocated, no archive unit is unpacked and no asset is replaced.
C6_MissingToolAbortsFirst ==
    /\ pc = "crashed" => present # Tools
    /\ present # Tools =>
          /\ extracted = {}
          /\ \A i \in Isos : iso_at[i] = "main"
          /\ unpacked = {}
          /\ DOMAIN xforms = {}

\* C12: in extract_any_isos a failed extraction of one image is printed and
\* the loop goes on with the next image, so that when the loop is over every
\* image of the glob was attempted and main goes on; an image lies in the
\* processed folder only after its own extraction returned zero, and an
\* image whose extraction failed is still in the main folder.
C12_IsoState ==
    /\ \A i \in Isos :
          /\ iso_at[i] = "processed" => i \in extracted
          /\ i \in iso_errors => (iso_at[i] = "main" /\ i \notin extracted)
    /\ ("7z.exe" \in present /\ pc \notin {"start", "isos"})
          => extracted \cup iso_errors = Isos
C12_IsoStep ==
    /\ (pc = "isos" /\ iso_errors' # iso_errors)
          => /\ pc' = "isos"
             /\ iso_todo' = iso_todo \ (iso_errors' \ iso_errors)
             /\ extracted' = extracted
    /\ (pc = "isos" /\ pc' # "isos")
          => (iso_todo = {} /\ pc' = IF skip THEN "build_iso" ELSE "discover")
C12_IsoFailureIsolated == [](C12_IsoState) /\ [][C12_IsoStep]_vars

\* C12 witness: the run reached its end after the extraction of one image
\* failed and the extraction of another succeeded
C12_Witness ==
    /\ pc = "done"
    /\ iso_errors # {}
    /\ \E i \in extracted : iso_at[i] = "processed"

\* C13: with --skip the run does the ingest of the disc images and then goes
\* straight to build_iso: no MAIN.HDR is looked for, no archive unit is
\* unpacked or packed, no temp_out is created, and no .vgs file is gathered,
\* converted or replaced, in a workspace or in the main folder.
C13_SkipState ==
    skip =>
        /\ pc \in {"start", "isos", "build_iso", "exited"}
        /\ main_hdrs = {} /\ visited = {} /\ unpacked = {} /\ packs = {}
        /\ vgs_files = {} /\ vgs_errors = {} /\ DOMAIN xforms = {}
        /\ ~loose_ran
C13_SkipStep ==
    skip =>
        /\ ws_exists' = ws_exists /\ marker' = marker
        /\ tree' = tree /\ ark' = ark
        /\ (pc \in {"start", "isos"} /\ pc' \notin {"start", "isos"})
              => pc' = "build_iso"
C13_SkipBypassesUnits == [](C13_SkipState) /\ [][C13_SkipStep]_vars

\* C13 witness: a run with --skip has exited after an image was extracted,
\* which put an archive unit into the main folder
C13_Witness ==
    /\ skip
    /\ pc = "exited"
    /\ \E i \in extracted : IsoUnits(i) # {} /\ IsoUnits(i) \subseteq on_disk

\* C14: extract_ark leaves the marker in the workspace exactly when ark2dir
\* returned zero.  When it did, the call returns normally and the marker is
\* there afterwards: it is created when there was none, and a marker that
\* was already there is not written to.  When ark2dir failed (or arkhelper
\* is absent) the call raises, writes no marker, and the workspace holds a
\* marker afterwards only if it held one before.
C14_MarkerIffUnpacked ==
    (call.op = "extract_ark") =>
        /\ (call.result = "success") <=> call.unpacked
        /\ call.unpacked =>
              /\ call.unit \in ws_exists
              /\ call.unit \in marker
              /\ call.touched <=> ~call.had_marker
        /\ ~call.unpacked =>
              /\ call.result = "raised"
              /\ ~call.touched
              /\ (call.unit \in marker) <=> call.had_marker

\* C14 witness: ark2dir exited non-zero after it had written a file into a
\* workspace without a marker; the call raised and there is no marker
C14_Witness ==
    /\ call.op = "extract_ark"
    /\ call.result = "raised"
    /\ "arkhelper.exe" \in present
    /\ ~call.had_marker
    /\ call.unit \notin marker
    /\ DOMAIN tree[call.unit] # {}

\* C15: archive units and assets are taken one at a time.  At most one unit
\* is between its extract and its teardown; its steps come in the order
\* extract, transform (one asset per step, each an asset of that unit's
\* workspace), repack, teardown; the next unit is extracted only when no
\* unit is open; and the pass over the main folder starts only when every
\* discovered unit that has a data file was taken up and none is open.
C15_OneOpenUnit ==
    /\ (pc \in {"gather", "vgs", "repack", "rmtree"} /\ ~loose_ran)
          => (cur \in Units /\ cur \in visited /\ cur \notin main_hdrs)
    /\ pc \in {"units", "discover"} => cur = 0
    /\ (pc = "vgs" /\ ~loose_ran) => \A k \in vgs_todo : k[1] = cur
    /\ loose_ran =>
          (cur = Main /\ main_hdrs = {} /\ (on_disk \cap Units) \subseteq visited)
C15_Step ==
    /\ (visited' # visited)
          => /\ pc = "units" /\ cur = 0 /\ ~loose_ran
             /\ cur' \in Units \ visited
             /\ visited' = visited \cup {cur'}
             /\ pc' \in {"gather", "crashed"}
    /\ (pc = "gather" /\ ~loose_ran) => (pc' \in {"vgs", "repack"} /\ cur' = cur)
    /\ (pc = "vgs")
          => /\ Cardinality(vgs_todo \ vgs_todo') = 1
             /\ vgs_todo' \subseteq vgs_todo
             /\ cur' = cur
             /\ ~loose_ran => pc' = IF vgs_todo' = {} THEN "repack" ELSE "vgs"
    /\ (pc' = "repack") => (pc \in {"gather", "vgs"} /\ vgs_todo' = {})
    /\ (packs' # packs) => (pc = "repack" /\ packs' = packs \cup {cur})
    /\ (pc = "repack") => (pc' \in {"rmtree", "crashed"} /\ cur' = cur)
    /\ (pc' = "rmtree") => pc = "repack"
    /\ (pc = "rmtree") => (pc' = "units" /\ cur' = 0)
    /\ (cur' # cur) => (pc = "rmtree" \/ (pc = "units" /\ cur = 0))
    /\ (loose_ran' /\ ~loose_ran)
          => (pc = "units" /\ cur = 0 /\ main_hdrs = {}
                /\ (on_disk \cap Units) \subseteq visited)
C15_UnitsOneAtATime == [](C15_OneOpenUnit) /\ [][C15_Step]_vars

\* C15 witness: the run is over after two archive units were extracted,
\* transformed, repacked and torn down, and the main folder was passed
C15_Witness ==
    /\ pc = "done"
    /\ loose_ran
    /\ Cardinality(visited) >= 2
    /\ packs = visited
    /\ \A u \in visited : \E k \in DOMAIN xforms : k[1] = u

\* C16: when the script has run to "Done." and is run again over the same
\* main folder with the same delay, the second run leaves every archive and
\* every .vgs file as the first run left them.  It is stated for the pairs
\* of runs in which no tool fails.
C16_SecondRunChangesNothing ==
    (call.op = "second_run" /\ pc = "done" /\ faults = 0)
        => (ark = call.ark /\ tree = call.tree)

\* C17: in a run of main, dir2ark is invoked for an archive unit only when
\* ark2dir returned zero for that unit earlier in the same run; a unit whose
\* ark2dir failed in this run is never packed, also when its temp_out held
\* the marker of an earlier run.
C17_PackOnlyAfterUnpack ==
    /\ packs \subseteq unpacked
    /\ \A u \in visited \ unpacked : u \notin packs /\ ark[u] = PackedFiles(u)

\* C17 witness: the workspace of unit 1 held the marker of an earlier run,
\* ark2dir exited non-zero in this run, the marker is still there, and the
\* run is over without a pack of the unit
C17_Witness ==
    /\ RunOver
    /\ 1 \in visited \ unpacked
    /\ 1 \in ark_failed
    /\ 1 \in marker
    /\ 1 \notin packs

\* C18: the iteration of process_vgs_files on a .vgs file replaces the file
\* only as its last step, when the conversion to WAV, apply_offset and the
\* conversion back have all succeeded; then the file holds the shifted audio
\* (delay_ms of frames fewer or more).  When the iteration fails at any
\* step, the file is afterwards exactly what it was before the iteration.
C18_Processed == vgs_todo \ vgs_todo'
C18_Shift(w) ==
    IF delay_ms < 0 THEN - ((w.framerate * Abs(delay_ms)) \div 1000)
    ELSE (w.framerate * Abs(delay_ms)) \div 1000
C18_Step ==
    (pc = "vgs") =>
        \A k \in C18_Processed :
            LET before == tree[k[1]]
                after  == tree'[k[1]]
                f      == k[2]
            IN  /\ (k \in pass_err') <=> (k \notin pass_ok')
                /\ (k \in pass_err') =>
                      /\ (f \in DOMAIN after) <=> (f \in DOMAIN before)
                      /\ (f \in DOMAIN before) => after[f] = before[f]
                /\ (k \in pass_ok') =>
                      /\ "RockAudio.exe" \in present
                      /\ k \notin env_hit'
                      /\ f \in DOMAIN before /\ f \in DOMAIN after
                      /\ Decode(before[f]) # NoFile /\ Decode(after[f]) # NoFile
                      /\ delay_ms < 0 =>
                            - C18_Shift(Decode(before[f])) < TotalFrames(Decode(before[f]))
                      /\ TotalFrames(Decode(after[f]))
                             = TotalFrames(Decode(before[f])) + C18_Shift(Decode(before[f]))
C18_ReplacedLast == [][C18_Step]_vars

\* C18 witness: in the pass over a workspace the conversion back of a track
\* failed after it had written a part of <stem>_temp.vgs, and the track is
\* still what the archive held
C18_Witness ==
    \E k \in pass_err \cap env_hit :
        /\ k[1] \in Units
        /\ ~loose_ran
        /\ TempVgs(k[2]) \in DOMAIN tree[k[1]]
        /\ k[2] \in DOMAIN tree[k[1]]
        /\ tree[k[1]][k[2]] = PackedFiles(k[1])[k[2]]

\* C19: once the iteration of process_vgs_files on a .vgs file is over, by
\* success or by a printed error, none of its intermediate files is left in
\* the directory; so no <stem>_temp.vgs is in a workspace or in the main
\* folder between iterations, none is packed into an archive, and none is in
\* a gathered list.  (No .vgs file of the tree before the run has a stem
\* that ends in "_temp"; the two WAV files are unlinked by the finally
\* clause on every path.)
C19_IsIntermediate(f) ==
    /\ Len(f.stem) > Len(suffix_temp)
    /\ SubSeq(f.stem, Len(f.stem) - Len(suffix_temp) + 1, Len(f.stem)) = suffix_temp
C19_NoIntermediateLeft ==
    /\ \A loc \in DOMAIN tree : \A f \in DOMAIN tree[loc] : ~C19_IsIntermediate(f)
    /\ \A u \in Units : \A f \in DOMAIN ark[u] : ~C19_IsIntermediate(f)
    /\ \A k \in vgs_files : ~C19_IsIntermediate(k[2])

(***************************************************************************)
(* Properties of apply_offset, stated on the call record of SpecOffset.    *)
(* The quantities of the statements are computed here from the containers  *)
(* themselves.                                                             *)
(***************************************************************************)
FrameAt(w, i)    == SubSeq(w.data, (i - 1) * BytesPerFrame(w) + 1, i * BytesPerFrame(w))
FloorFrames(c)   == (c.input_wav.framerate * Abs(c.delay_ms)) \div 1000
Returned         == call.op = "apply_offset" /\ call.status = "returned"
Finished         == call.op = "apply_offset" /\ call.status # "pending"
SameFormat(a, b) ==
    /\ a.channels = b.channels
    /\ a.sampwidth = b.sampwidth
    /\ a.framerate = b.framerate
    /\ a.comptype = b.comptype
    /\ a.compname = b.compname

\* C7: a negative delay whose offset in frames, floor(frameRate*|offsetMs|/1000),
\* is at least the number of frames of the source (also when the source has no
\* frame) makes apply_offset raise, and the destination path holds after the
\* call exactly what it held before: nothing is created, nothing is modified.
C7_TrimTooShortFails ==
    (Finished /\ call.delay_ms < 0
        /\ FloorFrames(call) >= TotalFrames(call.input_wav))
    => (call.status = "raised" /\ call.after = call.before)

\* C7 witness: a source with frames, trimmed by exactly its length, while an
\* older file lies at the destination
C7_Witness ==
    /\ Finished
    /\ call.delay_ms < 0
    /\ TotalFrames(call.input_wav) > 0
    /\ FloorFrames(call) = TotalFrames(call.input_wav)
    /\ call.before = OlderFile
    /\ call.status = "raised"

\* C8: a negative delay whose offset in frames is below the number of frames
\* of the source makes apply_offset succeed; the output has totalFrames -
\* offsetFrames frames and its frame i is the source's frame offsetFrames + i;
\* at 44100 Hz a delay of -60 ms trims exactly 2646 frames.
C8_TrimCopiesTail ==
    (Finished /\ call.delay_ms < 0
        /\ FloorFrames(call) < TotalFrames(call.input_wav))
    => /\ call.status = "returned"
       /\ TotalFrames(call.after) = TotalFrames(call.input_wav) - FloorFrames(call)
       /\ Len(call.after.data) = TotalFrames(call.after) * BytesPerFrame(call.after)
       /\ \A i \in 1..TotalFrames(call.after) :
             FrameAt(call.after, i) = FrameAt(call.input_wav, FloorFrames(call) + i)
       /\ (call.input_wav.framerate = 44100 /\ call.delay_ms = -60)
             => TotalFrames(call.after) = TotalFrames(call.input_wav) - 2646

\* C8 witness: the 44100 Hz source of 2650 frames trimmed by 60 ms
C8_Witness ==
    /\ Returned
    /\ call.input_wav.framerate = 44100
    /\ call.delay_ms = -60
    /\ TotalFrames(call.input_wav) = 2650
    /\ TotalFrames(call.after) = 4

\* C9: a positive delay makes apply_offset succeed with totalFrames +
\* floor(frameRate*offsetMs/1000) frames; the first offsetFrames * channels *
\* sampwidth bytes are zero and the bytes after them are the whole payload of
\* the source, in order.
C9_PadPrependsSilence ==
    (Finished /\ call.delay_ms > 0)
    => LET pad == FloorFrames(call) * call.input_wav.channels * call.input_wav.sampwidth
       IN  /\ call.status = "returned"
           /\ TotalFrames(call.after) = TotalFrames(call.input_wav) + FloorFrames(call)
           /\ Len(call.after.data) = pad + Len(call.input_wav.data)
           /\ \A j \in 1..pad : call.after.data[j] = 0
           /\ SubSeq(call.after.data, pad + 1, Len(call.after.data)) = call.input_wav.data

\* C9 witness: a source with a non-zero payload padded by at least one frame
C9_Witness ==
    /\ Returned
    /\ call.delay_ms > 0
    /\ FloorFrames(call) >= 1
    /\ \E j \in 1..Len(call.input_wav.data) : call.input_wav.data[j] # 0
    /\ TotalFrames(call.after) > TotalFrames(call.input_wav)

\* C10: whenever apply_offset succeeds the output carries the channel count,
\* sample width, frame rate and compression tag of the source; with a delay
\* of 0 it succeeds and the output payload is the input payload, byte for byte.
C10_FormatKeptZeroIsIdentity ==
    /\ Returned => SameFormat(call.after, call.input_wav)
    /\ (Finished /\ call.delay_ms = 0)
          => (call.status = "returned" /\ call.after.data = call.input_wav.data)

\* C10 witness: a two-channel, one-byte source with a payload, delay 0, over
\* an older file of another format
C10_Witness ==
    /\ Returned
    /\ call.delay_ms = 0
    /\ call.input_wav.channels = 2
    /\ call.input_wav.sampwidth = 1
    /\ Len(call.input_wav.data) > 0
    /\ call.before = OlderFile
    /\ call.after # call.before

\* C20 as stated: for every PCM input and every d > 0, apply_offset with +d
\* followed by apply_offset with -d on the result succeeds and gives back
\* the payload and the format of the input, whatever the number of frames,
\* zero included.
C20_PadThenTrimAlways ==
    (call.op = "pad_then_trim") =>
        /\ call.status = "returned"
        /\ call.after.data = call.input_wav.data
        /\ SameFormat(call.after, call.input_wav)

\* C20 as amended: for every PCM input of at least one frame and every
\* d > 0, apply_offset with +d followed by apply_offset with -d succeeds and
\* gives back the payload and the format of the input; on an input without
\* frames the second call raises (the offset equals the frame count of the
\* padded file) and writes nothing.
C20_PadThenTrimIsIdentity ==
    (call.op = "pad_then_trim") =>
        IF TotalFrames(call.input_wav) >= 1
        THEN /\ call.status = "returned"
             /\ call.after.data = call.input_wav.data
             /\ SameFormat(call.after, call.input_wav)
        ELSE /\ call.status = "raised"
             /\ call.after = NoFile

\* C20 witness: a two-channel input with a non-zero payload was padded by at
\* least one frame and trimmed back
C20_Witness ==
    /\ call.op = "pad_then_trim"
    /\ call.status = "returned"
    /\ call.input_wav.channels = 2
    /\ TotalFrames(call.input_wav) >= 1
    /\ TotalFrames(call.padded) > TotalFrames(call.input_wav)
    /\ \E j \in 1..Len(call.input_wav.data) : call.input_wav.data[j] # 0
    /\ call.after.data = call.input_wav.data

(***************************************************************************)
(* Properties of gather_vgs_files, stated on the call record of            *)
(* SpecGather.  The rule is written here on the segments of a path below   *)
(* the root the function was given.                                        *)
(***************************************************************************)
C11_HasSegment(f, word) == \E i \in 1..Len(f.dir) : Lower(f.dir[i]) = word
C11_EndsInPTwoDigits(stem) ==
    /\ Len(stem) >= 4
    /\ Lower(SubSeq(stem, Len(stem) - 3, Len(stem) - 2)) = <<"_", "p">>
    /\ stem[Len(stem) - 1] \in Digits
    /\ stem[Len(stem)] \in Digits
C11_Rule(f) ==
    /\ ~C11_HasSegment(f, seg_tutorial)
    /\ ~C11_HasSegment(f, seg_sfx)
    /\ C11_HasSegment(f, seg_songs)
    /\ ~C11_EndsInPTwoDigits(f.stem)
GatherReturned == call.op = "gather_vgs_files" /\ call.status = "returned"

\* C11: gather_vgs_files(root) returns exactly the .vgs files under root of
\* which, case-insensitively, no path segment is "tutorial" or "sfx", some
\* path segment is "songs", and the stem does not end in "_p" and two
\* digits; a root that holds songs/track1 and songs/track1_p50 yields only
\* track1.
C11_DiscoverByRule ==
    GatherReturned =>
        /\ call.result = {<<Main, f>> : f \in {g \in DOMAIN tree[Main] : C11_Rule(g)}}
        /\ (DOMAIN tree[Main] = {Track1File, Track1P50File})
              => call.result = {<<Main, Track1File>>}

=============================================================================
